---- MODULE Spec2Model ----
(***************************************************************************)
(* f1gpt: retrieval-augmented streaming chat.                              *)
(*                                                                         *)
(* Server side (src/app/api/chat/route.ts): the two POST handlers, the     *)
(* Hugging Face variant ("hf") and the Together variant ("together"):      *)
(* request validation, retrieval, and the streaming task that writes       *)
(* server-push events to the response channel.                             *)
(*                                                                         *)
(* Client side (the page component held in src/tsconfig.json, lines        *)
(* 195-430): React state, the render snapshot the handlers close over,     *)
(* handleInputChange, handleSubmit, handlePrompt, the fetch / read loop.   *)
(*                                                                         *)
(* On the server, text is a sequence of atoms: an atom is one character    *)
(* (" ", "<", ...) or an indivisible literal without whitespace ("Max").   *)
(***************************************************************************)
EXTENDS Integers, Sequences, FiniteSets, TLC

\* ------------------------------------------------------------------ bounds
MaxIncrements == 3   \* chunks pulled from the language-model gateway per request
MaxStored == 6       \* documents held by the collection (the search limit is 5)
MaxServerNow == 1    \* server clock (Date.now()) runs 0..MaxServerNow

\* ------------------------------------------------------- program constants
EMBEDDING_DIM == 1024
SIMILARITY_FLOOR == 70   \* 0.7, similarities are in hundredths
SEARCH_LIMIT == 5

\* -------------------------------------------------------------------- text
WS == {" ", "\n", "\t"}
EOS == <<"<", "/", "s", ">">>

\* String.prototype.trim
Trim(s) ==
    LET keep == {i \in 1..Len(s) : s[i] \notin WS} IN
    IF keep = {} THEN <<>>
    ELSE LET first == CHOOSE i \in keep : \A j \in 1..(i - 1) : s[j] \in WS
             last  == CHOOSE i \in keep : \A j \in (i + 1)..Len(s) : s[j] \in WS
         IN SubSeq(s, first, last)

\* s.replace(/<\/s>$/, '')
StripEOS(s) ==
    IF Len(s) >= Len(EOS) /\ SubSeq(s, Len(s) - Len(EOS) + 1, Len(s)) = EOS
    THEN SubSeq(s, 1, Len(s) - Len(EOS))
    ELSE s

RECURSIVE Join(_, _)
\* Array.prototype.join
Join(parts, sep) ==
    IF parts = <<>> THEN <<>>
    ELSE IF Len(parts) = 1 THEN parts[1]
    ELSE parts[1] \o sep \o Join(Tail(parts), sep)

\* --------------------------------------------------------- server literals
NO_DOCUMENTS == <<"No relevant documents found.">>
APOLOGY_CATCH_HF == <<"Sorry,", " ", "there", " ", "was", " ", "an", " ", "error",
                      " ", "processing", " ", "your", " ", "request">>
APOLOGY_SERVER == APOLOGY_CATCH_HF \o <<".">>
OBJECT_STRING == <<"[object", " ", "Object]">>

Variants == {"hf", "together"}

\* ------------------------------------------------------------- JS values
JUndef == [t |-> "undef"]
JNum == [t |-> "num"]
JStr == [t |-> "str"]
JArr(len, first) == [t |-> "arr", len |-> len, first |-> first]
JObj(data) == [t |-> "obj", data |-> data]

IsArray(v) == v.t = "arr"
Falsy(v) == v.t = "undef"
ElemZero(v) == IF IsArray(v) /\ v.len > 0 THEN v.first ELSE JUndef
DataOf(v) == IF v.t = "obj" THEN v.data ELSE JUndef

FlatVec(n) == JArr(n, JNum)

\* what hf.featureExtraction may resolve to
RawEmbeddings ==
    { JUndef, JNum, JStr, FlatVec(EMBEDDING_DIM), FlatVec(EMBEDDING_DIM - 1),
      FlatVec(0), JArr(1, FlatVec(EMBEDDING_DIM)), JArr(1, FlatVec(EMBEDDING_DIM + 1)),
      JObj(FlatVec(EMBEDDING_DIM)), JObj(JUndef), JObj(JNum),
      JArr(EMBEDDING_DIM, JStr), JArr(1, JArr(EMBEDDING_DIM, FlatVec(1))),
      JObj(JArr(EMBEDDING_DIM, JStr)) }

ensureFlatNumberArray(input) ==
    IF Falsy(input) THEN [ok |-> FALSE, value |-> JUndef]
    ELSE IF IsArray(input) /\ ~IsArray(ElemZero(input))
        THEN [ok |-> TRUE, value |-> input]
    ELSE IF IsArray(input) /\ IsArray(ElemZero(input))
        THEN [ok |-> TRUE, value |-> ElemZero(input)]
    ELSE IF ~Falsy(DataOf(input)) /\ IsArray(DataOf(input))
        THEN [ok |-> TRUE, value |-> DataOf(input)]
    ELSE [ok |-> FALSE, value |-> JUndef]

\* --------------------------------------------------------- search results
NoSim == -1
Doc(text, sim) == [text |-> text, similarity |-> sim]
Docs ==
    { Doc(<<"A">>, 82), Doc(<<>>, 75), Doc(<<"B">>, 70), Doc(<<"C">>, 65),
      Doc(<<"N">>, NoSim) }

\* the documents of the collection, in descending similarity to the query
StoredLists ==
    { r \in UNION { [1..n -> Docs] : n \in 0..MaxStored } :
        \A i \in 1..(Len(r) - 1) : r[i].similarity >= r[i + 1].similarity }

\* collection.find({}, {sort: {$vector}, limit}).toArray(): the `limit` nearest
Find(documents, limit) ==
    SubSeq(documents, 1, IF Len(documents) < limit THEN Len(documents) ELSE limit)

\* mutant: a similarity of exactly 0.7 passes
PassesFloorInclusive(doc) ==
    doc.similarity # NoSim /\ doc.similarity # 0 /\ doc.similarity >= SIMILARITY_FLOOR

\* doc.$similarity && doc.$similarity > 0.7
PassesFloor(doc) ==
    doc.similarity # NoSim /\ doc.similarity # 0 /\ doc.similarity > SIMILARITY_FLOOR

\* results.filter(...).map((doc, index) => ({content, similarity, index: index + 1}))
FilterAndRank(results) ==
    LET kept == SelectSeq(results, PassesFloor) IN
    [i \in 1..Len(kept) |->
        [content |-> kept[i].text,
         similarity |-> IF kept[i].similarity = NoSim THEN 0 ELSE kept[i].similarity,
         index |-> i]]

\* mutant: the passages are joined by a single newline
FormatContextSingleNewline(relevant) ==
    IF Len(relevant) > 0
    THEN Join([i \in 1..Len(relevant) |-> relevant[i].content], <<"\n">>)
    ELSE NO_DOCUMENTS

\* relevantDocuments.length > 0 ? relevantDocuments.map(d => d.content).join('\n\n') : "No relevant ..."
FormatContext(relevant) ==
    IF Len(relevant) > 0
    THEN Join([i \in 1..Len(relevant) |-> relevant[i].content], <<"\n", "\n">>)
    ELSE NO_DOCUMENTS

\* JSON.stringify(documents.map(doc => doc.text ?? ""))
StringifyTexts(documents) ==
    <<"[">> \o Join([i \in 1..Len(documents) |-> <<"\"">> \o documents[i].text \o <<"\"">>],
                    <<",">>) \o <<"]">>

\* ------------------------------------------------------------ server state
VARIABLES
    variant,             \* which POST handler of route.ts serves the request
    req,                 \* the parsed request body
    rawEmbedding,        \* hf: what hf.featureExtraction resolves to, or that it throws
    embeddingFetch,      \* together: how the embeddings fetch turns out
    dbOutcome,           \* whether db.collection / collection.find throw
    stored,              \* the collection's documents, nearest to the query first
    firstRun,            \* what an earlier, identical request was answered with
    spc,                 \* position of the POST handler
    latestMessage,       \* messages[messages.length - 1]?.content
    relevantDocuments,   \* hf: relevantDocuments
    formattedContext,    \* hf: formattedContext, together: docContext
    retrievalFailure,    \* which retrieval step threw ("none" when none did)
    searchedDim,         \* length of the vector handed to collection.find (-1: none)
    embedding,           \* hf: whether the embedding was requested, and what
                         \* ensureFlatNumberArray made of it
    response,            \* what POST returned: "none", "stream", "500"
    tpc,                 \* position of the streaming task (the async IIFE)
    pendingExn,          \* an exception is propagating out of the catch block
    wstate,              \* writer: "none", "writable", "closed", "errored"
    closeCalls,          \* number of writer.close() calls made
    chan,                \* frames accepted by writer.write, in order
    accumulatedContent,  \* accumulatedContent
    pulled,              \* texts of the chunks pulled from the gateway so far
    llmInvoked,          \* the generation gateway has been called
    promptContext,       \* the context placed in the prompt at that call
    failedAt,            \* Len(chan) when generation failed (-1: it has not)
    writeFailedAt,       \* Len(pulled) when a writer.write rejected (-1: none has)
    serverNow            \* Date.now() on the server

serverVars == <<variant, req, rawEmbedding, embeddingFetch, dbOutcome, stored, firstRun, spc,
                latestMessage, relevantDocuments, formattedContext, retrievalFailure,
                searchedDim, embedding, response, tpc, pendingExn, wstate, closeCalls,
                chan, accumulatedContent, pulled, llmInvoked, promptContext, failedAt,
                writeFailedAt, serverNow>>
requestVars == <<variant, req, rawEmbedding, embeddingFetch, dbOutcome, stored, firstRun>>
retrievalVars == <<relevantDocuments, formattedContext, retrievalFailure, searchedDim,
                   embedding>>
taskVars == <<tpc, pendingExn, closeCalls, chan, accumulatedContent, pulled, llmInvoked,
              promptContext, failedAt, writeFailedAt>>

\* ------------------------------------------------------------ client state
VARIABLES
    messages,    \* useState<Message[]>: the message log
    input,       \* useState(''): the input field
    isLoading,   \* useState(false): the loading flag
    rMessages,   \* `messages` as captured by the handlers of the last render
    rInput,      \* `input` as captured by the handlers of the last render
    rIsLoading,  \* `isLoading` as captured by the handlers of the last render
    h,           \* one record per handleSubmit invocation that passed the guard
    run,         \* events applied since the last optimistic append (n = -1: an
                 \* apology was appended since), and the content of the last one
    clientNow    \* Date.now() in the browser

clientVars == <<messages, input, isLoading, rMessages, rInput, rIsLoading, h, run,
                clientNow>>

vars == <<serverVars, clientVars>>

\* ---------------------------------------------------------------- frames
Msg(id, content) == [type |-> "msg", id |-> id, role |-> "assistant", content |-> content]
DoneFrame == [type |-> "done", id |-> 0, role |-> "", content |-> <<>>]

\* --------------------------------------------------------------- requests
ReqMessage(content) == [content |-> content]
ReqBodies ==
    { [t |-> "undef", items |-> <<>>],
      [t |-> "str", items |-> <<>>],
      [t |-> "arr", items |-> <<>>],
      [t |-> "arr", items |-> <<ReqMessage(<<>>)>>],
      [t |-> "arr", items |-> <<ReqMessage(<<"Q">>), ReqMessage(<<"R">>)>>] }

\* !messages || !Array.isArray(messages)
MessagesInvalid(r) == r.t # "arr"
\* messages[messages.length - 1]?.content
LatestContent(r) == IF Len(r.items) = 0 THEN <<>> ELSE r.items[Len(r.items)].content

\* the request is rejected by the validation at the top of POST
RequestRejected(r) == MessagesInvalid(r) \/ LatestContent(r) = <<>>

\* --------------------------------------------------------------- retrieval
EmbedThrows == [t |-> "throw"]
DbOutcomes == {"ok", "collection_throws", "find_throws"}
TogetherEmbeddings == {"fetch_throws", "not_ok", "invalid", "ok"}

\* the embedding has not been requested / has been, with this result
NotEmbedded == [called |-> FALSE, ok |-> FALSE, value |-> JUndef]
Embedded(ok, value) == [called |-> TRUE, ok |-> ok, value |-> value]

\* the handler gets as far as db.collection
ReachesStore ==
    /\ ~RequestRejected(req)
    /\ IF variant = "hf"
       THEN LET e == ensureFlatNumberArray(rawEmbedding) IN
            e.ok /\ e.value.len = EMBEDDING_DIM
       ELSE embeddingFetch = "ok"

\* an input the handler never reads has one fixed value
InputsNormalised ==
    /\ (variant # "hf" \/ RequestRejected(req)) => rawEmbedding = FlatVec(EMBEDDING_DIM)
    /\ (variant # "together" \/ RequestRejected(req)) => embeddingFetch = "ok"
    /\ ~ReachesStore => dbOutcome = "ok"
    /\ (~ReachesStore \/ dbOutcome # "ok") => stored = <<>>

\* the request has not been served before / has been, with these chunks drawn
\* from the gateway and these frames written
NotServedBefore == [served |-> FALSE, pulled |-> <<>>, chan |-> <<>>]
ServedBefore(chunks, frames) == [served |-> TRUE, pulled |-> chunks, chan |-> frames]

\* POST is entered: nothing has been computed yet
AtEntry ==
    /\ spc = "recv"
    /\ latestMessage = <<>>
    /\ relevantDocuments = <<>>
    /\ formattedContext = <<>>
    /\ retrievalFailure = "none"
    /\ searchedDim = -1
    /\ embedding = NotEmbedded
    /\ response = "none"
    /\ tpc = "none"
    /\ pendingExn = FALSE
    /\ wstate = "none"
    /\ closeCalls = 0
    /\ chan = <<>>
    /\ accumulatedContent = <<>>
    /\ pulled = <<>>
    /\ llmInvoked = FALSE
    /\ promptContext = <<>>
    /\ failedAt = -1
    /\ writeFailedAt = -1

\* a request with any of a few retrieval outcomes, for the study of the stream
ServerInit ==
    /\ variant \in Variants
    /\ req \in ReqBodies
    /\ rawEmbedding \in {EmbedThrows, JNum, FlatVec(EMBEDDING_DIM - 1), FlatVec(EMBEDDING_DIM)}
    /\ embeddingFetch \in TogetherEmbeddings
    /\ dbOutcome \in DbOutcomes
    /\ stored \in { <<>>, <<Doc(<<"A">>, 82)>>, <<Doc(<<"A">>, 82), Doc(<<"C">>, 65)>> }
    /\ InputsNormalised
    /\ firstRun = NotServedBefore
    /\ serverNow = 0
    /\ AtEntry

\* a request with any embedding, any store outcome and any collection, for the
\* study of the handler up to its response
HandlerInit ==
    /\ variant \in Variants
    /\ req \in ReqBodies
    /\ rawEmbedding \in RawEmbeddings \cup {EmbedThrows}
    /\ embeddingFetch \in TogetherEmbeddings
    /\ dbOutcome \in DbOutcomes
    /\ stored \in StoredLists
    /\ InputsNormalised
    /\ firstRun = NotServedBefore
    /\ serverNow = 0
    /\ AtEntry

\* ------------------------------------------------------ request validation
\* mutant: only the messages array is validated, not the latest content
ValidateArrayOnly ==
    /\ spc = "recv"
    /\ IF MessagesInvalid(req)
       THEN /\ response' = "500"
            /\ spc' = "returned"
            /\ latestMessage' = latestMessage
       ELSE /\ latestMessage' = LatestContent(req)
            /\ spc' = "retrieve"
            /\ response' = response
    /\ UNCHANGED <<clientVars, requestVars, retrievalVars, taskVars, wstate, serverNow>>

Validate ==
    /\ spc = "recv"
    /\ IF RequestRejected(req)
       THEN /\ response' = "500"
            /\ spc' = "returned"
            /\ latestMessage' = latestMessage
       ELSE /\ latestMessage' = LatestContent(req)
            /\ spc' = "retrieve"
            /\ response' = response
    /\ UNCHANGED <<clientVars, requestVars, retrievalVars, taskVars, wstate, serverNow>>

\* mutant: the failure is rethrown instead of absorbed
RetrievalFailedEscapes(step, dim) ==
    [docs |-> <<>>, context |-> NO_DOCUMENTS, failure |-> step, searched |-> dim,
     escaped |-> TRUE]

RetrievalFailed(step, dim) ==
    [docs |-> <<>>, context |-> NO_DOCUMENTS, failure |-> step, searched |-> dim,
     escaped |-> FALSE]

\* mutant: the length of the embedding is not checked
HFRetrieveAnyLength(raw, db, results) ==
    IF raw = EmbedThrows THEN RetrievalFailed("embedding_call", -1)
    ELSE LET e == ensureFlatNumberArray(raw) IN
         IF ~e.ok THEN RetrievalFailed("embedding_shape", -1)
         ELSE IF db = "collection_throws" THEN RetrievalFailed("collection", -1)
         ELSE IF db = "find_throws" THEN RetrievalFailed("search", e.value.len)
         ELSE LET relevant == FilterAndRank(results) IN
              [docs |-> relevant, context |-> FormatContext(relevant), failure |-> "none",
               searched |-> e.value.len, escaped |-> FALSE]

\* the try / catch of the Hugging Face variant
HFRetrieve(raw, db, results) ==
    IF raw = EmbedThrows THEN RetrievalFailed("embedding_call", -1)
    ELSE LET e == ensureFlatNumberArray(raw) IN
         IF ~e.ok THEN RetrievalFailed("embedding_shape", -1)
         ELSE IF e.value.len # EMBEDDING_DIM THEN RetrievalFailed("embedding_length", -1)
         ELSE IF db = "collection_throws" THEN RetrievalFailed("collection", -1)
         ELSE IF db = "find_throws" THEN RetrievalFailed("search", e.value.len)
         ELSE LET relevant == FilterAndRank(results) IN
              [docs |-> relevant, context |-> FormatContext(relevant), failure |-> "none",
               searched |-> e.value.len, escaped |-> FALSE]

\* the embedding fetch (outside any try) and the DB try / catch of the Together variant
TogetherRetrieve(emb, db, results) ==
    IF emb # "ok"
    THEN [docs |-> <<>>, context |-> <<>>, failure |-> "embedding_" \o emb,
          searched |-> -1, escaped |-> TRUE]
    ELSE IF db = "collection_throws"
    THEN [docs |-> <<>>, context |-> <<>>, failure |-> "collection", searched |-> -1,
          escaped |-> FALSE]
    ELSE IF db = "find_throws"
    THEN [docs |-> <<>>, context |-> <<>>, failure |-> "search", searched |-> 0,
          escaped |-> FALSE]
    ELSE [docs |-> <<>>, context |-> StringifyTexts(results), failure |-> "none",
          searched |-> 0, escaped |-> FALSE]

\* the retrieval stage, on what the embedding provider and the store answer
Retrieve ==
    /\ spc = "retrieve"
    /\ LET results == Find(stored, SEARCH_LIMIT)
           out == IF variant = "hf" THEN HFRetrieve(rawEmbedding, dbOutcome, results)
                  ELSE TogetherRetrieve(embeddingFetch, dbOutcome, results)
       IN /\ relevantDocuments' = out.docs
          /\ formattedContext' = out.context
          /\ retrievalFailure' = out.failure
          /\ searchedDim' = out.searched
          /\ IF out.escaped
             THEN response' = "500" /\ spc' = "returned"
             ELSE response' = response /\ spc' = "open"
    /\ embedding' =
          IF variant # "hf" THEN Embedded(embeddingFetch = "ok", JUndef)
          ELSE IF rawEmbedding = EmbedThrows THEN Embedded(FALSE, JUndef)
          ELSE LET e == ensureFlatNumberArray(rawEmbedding) IN Embedded(e.ok, e.value)
    /\ UNCHANGED <<clientVars, requestVars, latestMessage, taskVars, wstate, serverNow>>

\* new TransformStream(), getWriter(), the task is started, the Response is returned
OpenStream ==
    /\ spc = "open"
    /\ wstate' = "writable"
    /\ tpc' = "init"
    /\ response' = "stream"
    /\ spc' = "returned"
    /\ UNCHANGED <<clientVars, requestVars, latestMessage, retrievalVars, pendingExn, closeCalls, chan,
                   accumulatedContent, pulled, llmInvoked, promptContext, failedAt,
                   writeFailedAt, serverNow>>

\* ---------------------------------------------------------- client, at rest
\* bounds of the client model
MaxSubmits == 2      \* handleSubmit invocations that pass the guard
MaxEvents == 2       \* frames the server sends, all responses together
MaxClientNow == 1    \* browser clock (Date.now()) runs 0..MaxClientNow
MaxInFlight == 4     \* symbols sent on a response and not yet read

MAX_INPUT_LENGTH == 1000

Slots == 1..MaxSubmits

\* a handleSubmit invocation that has not happened yet
Unused ==
    [pc |-> "unused", timer |-> "none", net |-> "none", wire |-> <<>>, buffer |-> <<>>,
     sent |-> 0, body |-> <<>>, apologies |-> 0, recv |-> <<>>, split |-> FALSE]

NoRun == [n |-> -1, last |-> <<>>, user |-> 0]

\* the page as first rendered
ClientIdle ==
    /\ messages = <<>>
    /\ input = <<>>
    /\ isLoading = FALSE
    /\ rMessages = <<>>
    /\ rInput = <<>>
    /\ rIsLoading = FALSE
    /\ h = [s \in Slots |-> Unused]
    /\ run = NoRun
    /\ clientNow = 0

\* ---------------------------------------------------------- streaming task
\* writer.write resolves only while the stream is writable; once the readable side
\* has been cancelled (the client went away) or close() has been called, it rejects
CanWrite == wstate = "writable"

\* what the gateway's lazy output may yield as chunk.token.text
Increments ==
    { <<>>, <<"Max">>, <<" ", "Verstappen">>, <<".">>, <<" ">>, EOS, EOS \o <<"\n">> }

\* catch block: content of the replacement event
CatchApology == IF variant = "hf" THEN APOLOGY_CATCH_HF ELSE APOLOGY_SERVER

\* mutant: the event carries the increment alone (a diff)
AccumulateDiff(acc, text) == text

\* accumulatedContent += text; accumulatedContent = accumulatedContent.replace(/<\/s>$/, '')
Accumulate(acc, text) ==
    IF variant = "hf" THEN StripEOS(acc \o text) ELSE acc \o text

\* content: accumulatedContent.trim()  (together: content: accumulatedContent)
EventContent(acc) == IF variant = "hf" THEN Trim(acc) ELSE acc

\* if (chunk.token.text)  (together: every chunk is emitted)
Emits(text) == variant # "hf" \/ text # <<>>

\* a writer.write that rejects is noted, with the number of chunks pulled by then
NoteWrite(resolved, pulledByThen) ==
    writeFailedAt' = IF resolved \/ writeFailedAt >= 0 THEN writeFailedAt
                     ELSE Len(pulledByThen)

\* mutant: the gateway is invoked without the seeding event
TaskInitNoSeed ==
    /\ tpc = "init"
    /\ tpc' = (IF CanWrite THEN "invoke" ELSE "catch")
    /\ UNCHANGED <<clientVars, requestVars, latestMessage, retrievalVars, spc, response, pendingExn,
                   wstate, closeCalls, chan, accumulatedContent, pulled, llmInvoked,
                   promptContext, failedAt, writeFailedAt, serverNow>>

\* write of initialMessage, before anything else in the try block
TaskInit ==
    /\ tpc = "init"
    /\ IF CanWrite
       THEN chan' = Append(chan, Msg(serverNow, <<>>)) /\ tpc' = "invoke"
       ELSE chan' = chan /\ tpc' = "catch"
    /\ NoteWrite(CanWrite, pulled)
    /\ UNCHANGED <<clientVars, requestVars, latestMessage, retrievalVars, spc, response, pendingExn,
                   wstate, closeCalls, accumulatedContent, pulled, llmInvoked,
                   promptContext, failedAt, serverNow>>

\* hf.textGenerationStream / together.chat.completions.create: resolves or rejects
InvokeLLM ==
    /\ tpc = "invoke"
    /\ llmInvoked' = TRUE
    /\ promptContext' = formattedContext
    /\ accumulatedContent' = <<>>
    /\ \E ok \in BOOLEAN :
          IF ok THEN tpc' = "loop" /\ failedAt' = failedAt
          ELSE tpc' = "catch" /\ failedAt' = Len(chan)
    /\ UNCHANGED <<clientVars, requestVars, latestMessage, retrievalVars, spc, response, pendingExn,
                   wstate, closeCalls, chan, pulled, writeFailedAt, serverNow>>

\* mutant: a rejected write does not leave the loop
LoopChunkIgnoresWriteFailure(text) ==
    /\ tpc = "loop"
    /\ Len(pulled) < MaxIncrements
    /\ pulled' = Append(pulled, text)
    /\ IF Emits(text)
       THEN /\ accumulatedContent' = Accumulate(accumulatedContent, text)
            /\ IF CanWrite
               THEN /\ chan' = Append(chan, Msg(serverNow, EventContent(accumulatedContent')))
                    /\ tpc' = tpc
               ELSE chan' = chan /\ tpc' = tpc
       ELSE UNCHANGED <<accumulatedContent, chan, tpc>>
    /\ NoteWrite(~Emits(text) \/ CanWrite, pulled')
    /\ UNCHANGED <<clientVars, requestVars, latestMessage, retrievalVars, spc, response, pendingExn,
                   wstate, closeCalls, llmInvoked, promptContext, failedAt, serverNow>>

\* one iteration of the for-await loop on a chunk carrying `text`
LoopChunk(text) ==
    /\ tpc = "loop"
    /\ Len(pulled) < MaxIncrements
    /\ pulled' = Append(pulled, text)
    /\ IF Emits(text)
       THEN /\ accumulatedContent' = Accumulate(accumulatedContent, text)
            /\ IF CanWrite
               THEN /\ chan' = Append(chan, Msg(serverNow, EventContent(accumulatedContent')))
                    /\ tpc' = tpc
               ELSE chan' = chan /\ tpc' = "catch"
       ELSE UNCHANGED <<accumulatedContent, chan, tpc>>
    /\ NoteWrite(~Emits(text) \/ CanWrite, pulled')
    /\ UNCHANGED <<clientVars, requestVars, latestMessage, retrievalVars, spc, response, pendingExn,
                   wstate, closeCalls, llmInvoked, promptContext, failedAt, serverNow>>

\* the gateway hands out its next chunk
LoopNext ==
    \E text \in (IF variant = "hf" THEN Increments ELSE {OBJECT_STRING}) : LoopChunk(text)

\* the gateway's sequence throws, or a chunk without token makes the loop body throw
LoopThrows ==
    /\ tpc = "loop"
    /\ tpc' = "catch"
    /\ failedAt' = Len(chan)
    /\ UNCHANGED <<clientVars, requestVars, latestMessage, retrievalVars, spc, response, pendingExn,
                   wstate, closeCalls, chan, accumulatedContent, pulled, llmInvoked,
                   promptContext, writeFailedAt, serverNow>>

\* the sequence is exhausted: write of `data: [DONE]`
WriteDone ==
    /\ tpc = "loop"
    /\ IF CanWrite
       THEN chan' = Append(chan, DoneFrame) /\ tpc' = "finally"
       ELSE chan' = chan /\ tpc' = "catch"
    /\ NoteWrite(CanWrite, pulled)
    /\ UNCHANGED <<clientVars, requestVars, latestMessage, retrievalVars, spc, response, pendingExn,
                   wstate, closeCalls, accumulatedContent, pulled, llmInvoked,
                   promptContext, failedAt, serverNow>>

\* mutant: the catch block also writes the terminal sentinel
CatchThenSentinel ==
    /\ tpc = "catch"
    /\ tpc' = "finally"
    /\ IF CanWrite
       THEN /\ chan' = chan \o <<Msg(serverNow, CatchApology), DoneFrame>>
            /\ pendingExn' = FALSE
       ELSE chan' = chan /\ pendingExn' = TRUE
    /\ NoteWrite(CanWrite, pulled)
    /\ UNCHANGED <<clientVars, requestVars, latestMessage, retrievalVars, spc, response, wstate,
                   closeCalls, accumulatedContent, pulled, llmInvoked, promptContext,
                   failedAt, serverNow>>

\* mutant: the catch block writes nothing
CatchWithoutApology ==
    /\ tpc = "catch"
    /\ tpc' = "finally"
    /\ chan' = chan
    /\ pendingExn' = ~CanWrite
    /\ NoteWrite(CanWrite, pulled)
    /\ UNCHANGED <<clientVars, requestVars, latestMessage, retrievalVars, spc, response, wstate,
                   closeCalls, accumulatedContent, pulled, llmInvoked, promptContext,
                   failedAt, serverNow>>

\* catch (error): write of errorMessage; a rejected write leaves the catch block
\* by exception
Catch ==
    /\ tpc = "catch"
    /\ tpc' = "finally"
    /\ IF CanWrite
       THEN chan' = Append(chan, Msg(serverNow, CatchApology)) /\ pendingExn' = FALSE
       ELSE chan' = chan /\ pendingExn' = TRUE
    /\ NoteWrite(CanWrite, pulled)
    /\ UNCHANGED <<clientVars, requestVars, latestMessage, retrievalVars, spc, response, wstate,
                   closeCalls, accumulatedContent, pulled, llmInvoked, promptContext,
                   failedAt, serverNow>>

\* mutant: no finally block, the writer is closed on no path
FinallyNoClose ==
    /\ tpc = "finally"
    /\ tpc' = (IF pendingExn THEN "outer" ELSE "done")
    /\ UNCHANGED <<clientVars, requestVars, latestMessage, retrievalVars, spc, response, pendingExn,
                   wstate, closeCalls, chan, accumulatedContent, pulled, llmInvoked,
                   promptContext, failedAt, writeFailedAt, serverNow>>

\* finally: await writer.close(); a rejected close, or the exception still
\* propagating, rejects the task's promise
Finally ==
    /\ tpc = "finally"
    /\ closeCalls' = closeCalls + 1
    /\ IF CanWrite
       THEN wstate' = "closed" /\ tpc' = (IF pendingExn THEN "outer" ELSE "done")
       ELSE wstate' = wstate /\ tpc' = "outer"
    /\ UNCHANGED <<clientVars, requestVars, latestMessage, retrievalVars, spc, response, pendingExn,
                   chan, accumulatedContent, pulled, llmInvoked, promptContext, failedAt,
                   writeFailedAt, serverNow>>

\* .catch(async error => { await writer.write(...); await writer.close() })
OuterCatch ==
    /\ tpc = "outer"
    /\ IF CanWrite
       THEN /\ chan' = Append(chan, Msg(serverNow, APOLOGY_SERVER))
            /\ closeCalls' = closeCalls + 1
            /\ wstate' = "closed"
            /\ tpc' = "done"
       ELSE /\ tpc' = "unhandled"
            /\ UNCHANGED <<chan, closeCalls, wstate>>
    /\ NoteWrite(CanWrite, pulled)
    /\ UNCHANGED <<clientVars, requestVars, latestMessage, retrievalVars, spc, response, pendingExn,
                   accumulatedContent, pulled, llmInvoked, promptContext, failedAt,
                   serverNow>>

\* the client goes away: the readable side is cancelled, which errors the writable side
ClientDisconnect ==
    /\ wstate = "writable"
    /\ wstate' = "errored"
    /\ UNCHANGED <<clientVars, requestVars, latestMessage, retrievalVars, spc, response, taskVars,
                   serverNow>>

\* the server clock advances
ServerTick ==
    /\ serverNow < MaxServerNow
    /\ tpc \in {"init", "invoke", "loop", "catch", "finally", "outer"}
    /\ serverNow' = serverNow + 1
    /\ UNCHANGED <<clientVars, requestVars, latestMessage, retrievalVars, spc, response, taskVars,
                   wstate>>

ServerNext ==
    \/ Validate
    \/ Retrieve
    \/ OpenStream
    \/ TaskInit
    \/ InvokeLLM
    \/ LoopNext
    \/ LoopThrows
    \/ WriteDone
    \/ Catch
    \/ Finally
    \/ OuterCatch
    \/ ClientDisconnect
    \/ ServerTick

\* a request arrives at the route; the page plays no part
Init == ServerInit /\ ClientIdle

SpecServer == Init /\ [][ServerNext]_vars

\* the handler alone, from its entry to the response it returns, on every input
HandlerNext ==
    \/ Validate
    \/ Retrieve
    \/ OpenStream

HandlerEntry == HandlerInit /\ ClientIdle

SpecHandler == HandlerEntry /\ [][HandlerNext]_vars

TaskEnded == tpc \in {"done", "unhandled"}

\* ------------------------------------------------- the same request, twice
\* the first answer is complete (sentinel written, channel closed): the same
\* request arrives again, later or in the same millisecond
ServeAgain ==
    /\ ~firstRun.served
    /\ tpc = "done" /\ failedAt = -1 /\ writeFailedAt = -1 /\ wstate = "closed"
    /\ firstRun' = ServedBefore(pulled, chan)
    /\ spc' = "recv"
    /\ latestMessage' = <<>>
    /\ relevantDocuments' = <<>>
    /\ formattedContext' = <<>>
    /\ retrievalFailure' = "none"
    /\ searchedDim' = -1
    /\ embedding' = NotEmbedded
    /\ response' = "none"
    /\ tpc' = "none"
    /\ pendingExn' = FALSE
    /\ wstate' = "none"
    /\ closeCalls' = 0
    /\ chan' = <<>>
    /\ accumulatedContent' = <<>>
    /\ pulled' = <<>>
    /\ llmInvoked' = FALSE
    /\ promptContext' = <<>>
    /\ failedAt' = -1
    /\ writeFailedAt' = -1
    /\ UNCHANGED <<clientVars, variant, req, rawEmbedding, embeddingFetch, dbOutcome,
                   stored, serverNow>>

\* a step of the handler or of its task; while the request is served for the
\* second time the gateway yields what it yielded the first time: the same
\* chunks, in the same order, and no failure
ReplayStep ==
    /\ ServerNext
    /\ firstRun.served =>
          /\ failedAt' = -1
          /\ Len(pulled') <= Len(firstRun.pulled)
          /\ pulled' = SubSeq(firstRun.pulled, 1, Len(pulled'))
          /\ (Len(chan') > Len(chan) /\ chan'[Len(chan')] = DoneFrame)
                => pulled = firstRun.pulled

ReplayNext ==
    \/ ReplayStep
    \/ ServeAgain

\* one valid request, one retrieval outcome
ReplayInit ==
    /\ ServerInit
    /\ ~RequestRejected(req)
    /\ rawEmbedding = FlatVec(EMBEDDING_DIM)
    /\ embeddingFetch = "ok"
    /\ dbOutcome = "ok"
    /\ Len(stored) = 1
    /\ ClientIdle

SpecReplay == ReplayInit /\ [][ReplayNext]_vars

\* ============================================================ server claims
Last(s) == s[Len(s)]
Contents(frames) == [i \in 1..Len(frames) |-> frames[i].content]

\* C1: on every exit path of the streaming task (graceful end, gateway failure,
\* failure while processing an increment, failed channel write, failed close) the
\* writer has been closed exactly once: close() was called once, never twice, and
\* the channel is not left writable.
C1_ClosedExactlyOnce ==
    /\ closeCalls <= 1
    /\ TaskEnded => closeCalls = 1 /\ wstate \in {"closed", "errored"}

\* C1 witness: the task ended through the outer .catch after events were streamed
C1_Witness == tpc = "unhandled" /\ Len(chan) >= 2 /\ closeCalls = 1

RECURSIVE ConcatAll(_)
ConcatAll(texts) == IF texts = <<>> THEN <<>> ELSE Head(texts) \o ConcatAll(Tail(texts))

RECURSIVE ExpectedContents(_, _)
\* contents of the events for `incs`, given what was accumulated before them
ExpectedContents(acc, incs) ==
    IF incs = <<>> THEN <<>>
    ELSE IF Head(incs) = <<>> THEN ExpectedContents(acc, Tail(incs))
    ELSE LET a == StripEOS(acc \o Head(incs)) IN
         <<Trim(a)>> \o ExpectedContents(a, Tail(incs))

\* the gateway's sequence ended without any failure and the sentinel was written
GracefulEnd == tpc = "done" /\ failedAt = -1 /\ chan # <<>> /\ Last(chan) = DoneFrame

\* C2 as stated: after the initial event, one event per increment, the k-th
\* carrying the plain concatenation of the first k increments, then [DONE].
C2_OnePerIncrementPlainConcat ==
    (variant = "hf" /\ GracefulEnd) =>
        /\ Len(chan) = Len(pulled) + 2
        /\ \A k \in 1..Len(pulled) :
              chan[k + 1].content = ConcatAll(SubSeq(pulled, 1, k))

\* C2 amended: in the Hugging Face variant, after the initial event there is one
\* event per NON-EMPTY increment, in generation order, each carrying the whole
\* accumulated content (increments appended, a trailing </s> removed after each
\* append) with surrounding whitespace trimmed; then [DONE], then the close;
\* the sentinel is never followed by another frame.
C2_AccumulatedThenDone ==
    /\ \A i \in 1..(Len(chan) - 1) : chan[i].type # "done"
    /\ (variant = "hf" /\ GracefulEnd) =>
          /\ chan[1].content = <<>>
          /\ Contents(SubSeq(chan, 2, Len(chan) - 1)) = ExpectedContents(<<>>, pulled)
          /\ wstate = "closed"
          /\ closeCalls = 1

\* C2 witness: a graceful end whose increments include an empty one and a blank one
C2_Witness ==
    /\ variant = "hf" /\ GracefulEnd
    /\ pulled = << <<"Max">>, <<>>, <<" ">> >>
    /\ Contents(chan) = << <<>>, <<"Max">>, <<"Max">>, <<>> >>

\* C3: after the gateway call or the processing of an increment failed, the only
\* further frame is one assistant event carrying the fixed apology, no sentinel
\* and no content event follows, and the task ends with the channel closed (or
\* errored because the client went away), never left writable.
C3_ApologyThenClose ==
    failedAt >= 0 =>
        LET after == SubSeq(chan, failedAt + 1, Len(chan)) IN
        /\ Len(after) <= 1
        /\ \A i \in 1..Len(after) :
              after[i] = Msg(after[i].id, CatchApology) /\ after[i].role = "assistant"
        /\ TaskEnded =>
              /\ wstate \in {"closed", "errored"}
              /\ wstate = "closed" => Len(after) = 1

\* C3 witness: generation failed after two events, the apology was sent, the
\* channel closed
C3_Witness ==
    failedAt = 2 /\ tpc = "done" /\ wstate = "closed" /\ Len(chan) = 3

\* C4: the first frame of every stream is an assistant event with empty
\* content, and it is on the channel before the generation gateway is invoked.
C4_SeedFirst ==
    /\ chan # <<>> =>
          chan[1].type = "msg" /\ chan[1].role = "assistant" /\ chan[1].content = <<>>
    /\ llmInvoked => chan # <<>>

\* C4 witness: the gateway has been invoked and produced output after the seed
C4_Witness == llmInvoked /\ Len(chan) >= 2 /\ chan[2].content # <<>>

\* C5: in the Hugging Face variant a failure of any retrieval step stays inside
\* the handler: the passage list is empty, the context is the sentinel, the
\* handler answers with the event stream (never the 500 path), and the gateway,
\* reached as soon as the seeding event is written, is invoked with that context.
C5_RetrievalAbsorbed ==
    (variant = "hf" /\ retrievalFailure # "none") =>
        /\ response # "500"
        /\ relevantDocuments = <<>>
        /\ formattedContext = NO_DOCUMENTS
        /\ spc = "returned" => response = "stream" /\ tpc # "none"
        /\ llmInvoked => promptContext = NO_DOCUMENTS
        /\ (chan # <<>> /\ tpc \notin {"init", "invoke"}) => llmInvoked

\* C5 witness: the embedding had the wrong length and the gateway was still invoked
C5_Witness ==
    variant = "hf" /\ retrievalFailure = "embedding_length" /\ llmInvoked
    /\ response = "stream"

\* C23: in the Together variant a failure to obtain the embedding or a failure of
\* the store never aborts the request: the handler answers with the event stream
\* and the gateway is invoked with an empty context.
C23_TogetherRetrievalAbsorbed ==
    (variant = "together" /\ retrievalFailure # "none") =>
        /\ response # "500"
        /\ formattedContext = <<>>
        /\ spc = "returned" => response = "stream" /\ tpc # "none"
        /\ llmInvoked => promptContext = <<>>

\* C21: no event written by the encoder carries content that ends with the
\* end-of-sequence marker, whatever the increments are.
C21_NoTrailingMarker ==
    \A i \in 1..Len(chan) :
        chan[i].type = "msg" =>
            LET c == chan[i].content IN
            ~(Len(c) >= Len(EOS) /\ SubSeq(c, Len(c) - Len(EOS) + 1, Len(c)) = EOS)

\* C20: once a write to the response channel has failed, no further increment
\* is pulled from the gateway: the increments pulled are those that had been
\* pulled when the write failed.
C20_NoPullAfterFailedWrite ==
    writeFailedAt >= 0 => Len(pulled) = writeFailedAt

\* C20 witness: the write of the second increment's event failed, the gateway
\* had more to give, and the task has ended
C20_Witness ==
    /\ writeFailedAt = 2 /\ Len(pulled) = 2 /\ Len(chan) >= 2
    /\ MaxIncrements > 2
    /\ TaskEnded

\* C18: a request whose body has no messages array, or an empty one, or whose
\* last message has no content, is answered with the JSON error body and status
\* 500; no stream is opened and the embedding, the search and the generation
\* gateway are not called.
C18_InvalidRequestRejected ==
    ( /\ spc # "recv"
      /\ \/ req.t # "arr"
         \/ req.items = <<>>
         \/ Last(req.items).content = <<>> )
    => /\ spc = "returned" /\ response = "500"
       /\ wstate = "none" /\ chan = <<>> /\ tpc = "none"
       /\ embedding = NotEmbedded
       /\ searchedDim = -1 /\ retrievalFailure = "none"
       /\ ~llmInvoked /\ pulled = <<>>

\* C18 witness: an empty messages array has been answered with status 500
C18_Witness ==
    /\ req.t = "arr" /\ req.items = <<>>
    /\ spc = "returned" /\ response = "500"

\* C16: when a request is served twice, with the retrieval and the gateway giving
\* the same outputs both times, the frames written the second time are
\* identical, byte for byte, to the frames written the first time.
C16_ByteIdenticalReplay ==
    (firstRun.served /\ GracefulEnd /\ pulled = firstRun.pulled) => chan = firstRun.chan

\* ----------------------------------------------------------- handler claims
\* the Hugging Face handler searched the store and nothing failed
Searched ==
    /\ variant = "hf"
    /\ spc \in {"open", "returned"}
    /\ ~RequestRejected(req)
    /\ retrievalFailure = "none"

\* positions, among the 5 nearest stored documents, of those above the floor
AboveFloor ==
    { i \in 1..Len(stored) :
        i <= 5 /\ stored[i].similarity # NoSim /\ 10 * stored[i].similarity > 700 }

\* the k-th position of AboveFloor, in the order of the search
KthAboveFloor(k) ==
    CHOOSE i \in AboveFloor : Cardinality({j \in AboveFloor : j < i}) = k - 1

\* C11: the passages are exactly the documents, among the (at most 5) returned
\* by the search, whose similarity is strictly above 0.7 (one at exactly 0.7 or
\* without similarity is left out), in the order of the search, which is
\* descending similarity, ranked 1..n; there are never more than 5; results at
\* 0.82 and 0.65 give the single passage at 0.82.
C11_PassagesAboveFloor ==
    /\ Len(relevantDocuments) <= 5
    /\ Searched =>
          /\ Len(relevantDocuments) = Cardinality(AboveFloor)
          /\ \A k \in 1..Len(relevantDocuments) :
                /\ relevantDocuments[k].index = k
                /\ relevantDocuments[k].content = stored[KthAboveFloor(k)].text
                /\ relevantDocuments[k].similarity = stored[KthAboveFloor(k)].similarity
                /\ relevantDocuments[k].similarity > 70
          /\ \A k \in 1..(Len(relevantDocuments) - 1) :
                relevantDocuments[k].similarity >= relevantDocuments[k + 1].similarity
    /\ (Searched /\ stored = <<Doc(<<"A">>, 82), Doc(<<"C">>, 65)>>) =>
          relevantDocuments = <<[content |-> <<"A">>, similarity |-> 82, index |-> 1]>>

\* C11 witness: the collection holds six documents above the floor and one
\* search returned five of them, which became passages 1..5 in that order
C11_Witness ==
    /\ Searched
    /\ Len(stored) = 6 /\ stored[1].similarity = 82 /\ stored[6].similarity = 75
    /\ Len(relevantDocuments) = 5
    /\ relevantDocuments[1].content = <<"A">> /\ relevantDocuments[5].index = 5
    /\ relevantDocuments[5].similarity = 75

RECURSIVE BlankLineJoined(_)
\* the contents of the passages, each but the first preceded by a double newline
BlankLineJoined(passages) ==
    IF Len(passages) = 1 THEN passages[1].content
    ELSE BlankLineJoined(SubSeq(passages, 1, Len(passages) - 1))
            \o <<"\n", "\n">> \o passages[Len(passages)].content

\* C12: once retrieval is over, the context is the contents of the surviving
\* passages joined in rank order by a double newline when there is at least one,
\* and it is the fixed sentinel exactly when there is none, a retrieval failure
\* included.
C12_ContextJoinedOrSentinel ==
    (variant = "hf" /\ spc \in {"open", "returned"} /\ ~RequestRejected(req)) =>
        /\ retrievalFailure # "none" => relevantDocuments = <<>>
        /\ relevantDocuments = <<>> <=> formattedContext = NO_DOCUMENTS
        /\ relevantDocuments # <<>> =>
              formattedContext = BlankLineJoined(relevantDocuments)

\* C12 witness: two passages survived, one of them without text, and the
\* context is their contents around a double newline
C12_Witness ==
    /\ variant = "hf" /\ spc = "open"
    /\ Len(relevantDocuments) = 2
    /\ relevantDocuments[2].content = <<>>
    /\ formattedContext = <<"A", "\n", "\n">>

\* a flat array of numbers
IsFlatNumeric(v) == v.t = "arr" /\ (v.len = 0 \/ v.first = JNum)

\* the flat numeric vector held by a value of one of the three accepted shapes
\* (JUndef for every other value)
FlatVectorIn(v) ==
    IF IsFlatNumeric(v) THEN v
    ELSE IF v.t = "arr" /\ v.len = 1 /\ IsFlatNumeric(v.first) THEN v.first
    ELSE IF v.t = "obj" /\ IsFlatNumeric(v.data) THEN v.data
    ELSE JUndef

\* C13: ensureFlatNumberArray gives the flat numeric vector of a value of one of
\* the three accepted shapes (a flat numeric array, a nested single-row array, an
\* object wrapping a `data` array) and fails on every other value.
C13_FlatNumericOrError ==
    (variant = "hf" /\ embedding.called /\ rawEmbedding # EmbedThrows) =>
        IF FlatVectorIn(rawEmbedding) # JUndef
        THEN embedding.ok /\ embedding.value = FlatVectorIn(rawEmbedding)
        ELSE ~embedding.ok

\* C14: an embedding whose length is not 1024 is an error of the retrieval: the
\* store is searched only with a vector of length 1024, and the vector searched
\* with is the embedding itself, neither truncated nor padded.
C14_SearchedOnlyAtDimension ==
    variant = "hf" =>
        /\ searchedDim \in {-1, 1024}
        /\ searchedDim # -1 => embedding.ok /\ embedding.value.len = searchedDim
        /\ (embedding.ok /\ embedding.value.len # 1024) =>
              /\ retrievalFailure = "embedding_length"
              /\ searchedDim = -1
              /\ relevantDocuments = <<>>

\* C14 witness: a nested single-row embedding of 1025 numbers was refused and
\* the store was not searched
C14_Witness ==
    /\ variant = "hf" /\ spc = "open"
    /\ embedding.ok /\ embedding.value = FlatVec(1025)
    /\ retrievalFailure = "embedding_length" /\ searchedDim = -1

\* ================================================================== client
\* On the client, text is run-length encoded: a sequence of runs, each one
\* character (or indivisible literal) repeated n times.
Run(c, n) == [c |-> c, n |-> n]
Lit(atoms) == [i \in 1..Len(atoms) |-> Run(atoms[i], 1)]

RECURSIVE TextLen(_)
\* String.prototype.length
TextLen(t) == IF t = <<>> THEN 0 ELSE Head(t).n + TextLen(Tail(t))

RECURSIVE TrimStart(_)
TrimStart(t) == IF t # <<>> /\ Head(t).c \in WS THEN TrimStart(Tail(t)) ELSE t
RECURSIVE TrimEnd(_)
TrimEnd(t) ==
    IF t # <<>> /\ t[Len(t)].c \in WS THEN TrimEnd(SubSeq(t, 1, Len(t) - 1)) ELSE t

\* String.prototype.trim on run-length encoded text
TrimText(t) == TrimEnd(TrimStart(t))

APOLOGY_TIMEOUT == Lit(<<"Sorry,", " ", "the", " ", "request", " ", "timed", " ", "out.",
                         " ", "Please", " ", "try", " ", "again.">>)
APOLOGY_CLIENT == Lit(APOLOGY_SERVER \o <<" ", "Please", " ", "try", " ", "again.">>)

\* what may stand in the input field or be offered as a prompt
InputValues ==
    { <<>>, <<Run(" ", 1)>>, <<Run("a", MAX_INPUT_LENGTH)>>,
      <<Run("a", MAX_INPUT_LENGTH), Run(" ", 1)>>,
      <<Run("a", MAX_INPUT_LENGTH + 1)>> }

\* createMessage(role, content): id is Date.now().toString()
createMessage(role, content) == [id |-> clientNow, role |-> role, content |-> content]

\* mutant: the length bound is tested with >= instead of >
SubmitAcceptsOffByOne(in, loading) ==
    LET trimmedInput == TrimText(in) IN
    ~(trimmedInput = <<>> \/ loading \/ TextLen(trimmedInput) >= MAX_INPUT_LENGTH)

\* handleSubmit's guard: !(!trimmedInput || isLoading || trimmedInput.length > MAX)
SubmitAccepts(in, loading) ==
    LET trimmedInput == TrimText(in) IN
    ~(trimmedInput = <<>> \/ loading \/ TextLen(trimmedInput) > MAX_INPUT_LENGTH)

\* mutant: every event is appended as a new message
ApplyServerEventAppends(prev, parsed) == Append(prev, parsed)

\* the setMessages updater applied to a parsed event
ApplyServerEvent(prev, parsed) ==
    IF prev # <<>> /\ prev[Len(prev)].role = "assistant"
    THEN [prev EXCEPT ![Len(prev)].content = parsed.content]
    ELSE Append(prev, parsed)

\* catch (error): which apology is shown for an error with this message
CatchText(errorMessage) ==
    IF errorMessage = "Request timed out" THEN APOLOGY_TIMEOUT ELSE APOLOGY_CLIENT

\* mutant: the apology takes the place of the last message
AppendApologyOverwrites(prev, errorMessage) ==
    IF prev = <<>> THEN <<createMessage("assistant", CatchText(errorMessage))>>
    ELSE [prev EXCEPT ![Len(prev)] = createMessage("assistant", CatchText(errorMessage))]

\* setMessages(prev => [...prev, createMessage('assistant', ...)])
AppendApology(prev, errorMessage) ==
    Append(prev, createMessage("assistant", CatchText(errorMessage)))

\* ------------------------------------------------------- the response body
PREFIX == [k |-> "data: "]
NL == [k |-> "\n"]
DONE_TEXT == [k |-> "[DONE]"]
GARBAGE == [k |-> "garbage"]
Json(ev) == [k |-> "json", v |-> ev]
Frame(payload) == <<PREFIX, payload, NL, NL>>

EventContents == { <<>>, Lit(<<"Max">>) }
ServerEvents == { [id |-> clientNow, role |-> "assistant", content |-> c] : c \in EventContents }
Payloads == { Json(ev) : ev \in ServerEvents } \cup {DONE_TEXT, GARBAGE}

RECURSIVE Split(_)
\* buffer.split('\n')
Split(buf) ==
    IF \A i \in 1..Len(buf) : buf[i] # NL THEN <<buf>>
    ELSE LET i == CHOOSE j \in 1..Len(buf) : buf[j] = NL /\ \A l \in 1..(j - 1) : buf[l] # NL
         IN <<SubSeq(buf, 1, i - 1)>> \o Split(SubSeq(buf, i + 1, Len(buf)))

Front(s) == SubSeq(s, 1, Len(s) - 1)

\* the body of `for (const line of lines)`
ProcessLine(msgs, line) ==
    IF line # <<>> /\ line[1] = PREFIX
    THEN LET data == Tail(line) IN
         IF data = <<DONE_TEXT>> THEN msgs
         ELSE IF Len(data) = 1 /\ data[1].k = "json" THEN ApplyServerEvent(msgs, data[1].v)
         ELSE msgs
    ELSE msgs

RECURSIVE ProcessLines(_, _)
ProcessLines(msgs, lines) ==
    IF lines = <<>> THEN msgs
    ELSE ProcessLines(ProcessLine(msgs, Head(lines)), Tail(lines))

\* the events among `lines` that are parsed and applied
IsEventLine(line) ==
    Len(line) = 2 /\ line[1] = PREFIX /\ line[2].k = "json"
AppliedEvents(lines) ==
    LET evs == SelectSeq(lines, IsEventLine) IN [i \in 1..Len(evs) |-> evs[i][2].v]

\* ------------------------------------------------- user and render actions
\* React commits a render: the handlers now close over the current state
Render ==
    /\ <<rMessages, rInput, rIsLoading>> # <<messages, input, isLoading>>
    /\ rMessages' = messages
    /\ rInput' = input
    /\ rIsLoading' = isLoading
    /\ UNCHANGED <<serverVars, messages, input, isLoading, h, run, clientNow>>

\* handleInputChange; the field is disabled while the render shows loading
HandleInputChange(value) ==
    /\ ~rIsLoading
    /\ TextLen(value) <= MAX_INPUT_LENGTH
    /\ input' = value
    /\ UNCHANGED <<serverVars, messages, isLoading, rMessages, rInput, rIsLoading, h, run,
                   clientNow>>

HasFreeSlot == \E s \in Slots : h[s].pc = "unused"
FreeSlot == CHOOSE s \in Slots : h[s].pc = "unused" /\ \A t \in 1..(s - 1) : h[t].pc # "unused"

\* handleSubmit past its guard, up to the await of fetch
StartSubmission ==
    LET userMessage == createMessage("user", TrimText(rInput)) IN
    /\ isLoading' = TRUE
    /\ messages' = Append(messages, userMessage)
    /\ input' = <<>>
    /\ h' = [h EXCEPT ![FreeSlot] =
                [Unused EXCEPT !.pc = "fetching", !.timer = "armed", !.net = "pending",
                               !.body = Append(rMessages, userMessage)]]
    /\ run' = [n |-> 0, last |-> <<>>, user |-> Len(messages) + 1]

\* handleSubmit, invoked by the form, the Send button or the Enter key; an
\* invocation stopped by the guard returns without touching anything
HandleSubmit ==
    /\ HasFreeSlot
    /\ SubmitAccepts(rInput, rIsLoading)
    /\ StartSubmission
    /\ UNCHANGED <<serverVars, rMessages, rInput, rIsLoading, clientNow>>

\* handlePrompt(promptText): setInput(promptText), then handleSubmit, which still
\* reads the `input` of the render it was created in; the prompt row is shown
\* only while the rendered log is empty
HandlePrompt(promptText) ==
    /\ rMessages = <<>>
    /\ ~(TrimText(promptText) = <<>> \/ rIsLoading)
    /\ IF SubmitAccepts(rInput, rIsLoading)
       THEN HasFreeSlot /\ StartSubmission
       ELSE input' = promptText /\ UNCHANGED <<messages, isLoading, h, run>>
    /\ UNCHANGED <<serverVars, rMessages, rInput, rIsLoading, clientNow>>

\* ------------------------------------------------------ fetch and its timer
\* React commits the pending render before the next task (timer, network) runs:
\* only handlers invoked from the same render can observe a stale snapshot
Rendered == <<rMessages, rInput, rIsLoading>> = <<messages, input, isLoading>>

\* the outer catch and finally of handleSubmit, for an error with this message
FailSubmission(s, errorMessage, netAfter, timerAfter) ==
    /\ messages' = AppendApology(messages, errorMessage)
    /\ isLoading' = FALSE
    /\ h' = [h EXCEPT ![s].pc = "done", ![s].net = netAfter, ![s].timer = timerAfter,
                      ![s].apologies = @ + 1, ![s].wire = <<>>, ![s].buffer = <<>>,
                      ![s].recv = <<>>, ![s].split = FALSE]
    /\ run' = NoRun

\* fetch resolves: clearTimeout, then the checks of response.ok and response.body
FetchResolve(s, status) ==
    /\ Rendered
    /\ h[s].pc = "fetching" /\ h[s].net = "pending"
    /\ IF status = "ok"
       THEN /\ h' = [h EXCEPT ![s].pc = "reading", ![s].net = "open", ![s].timer = "cleared"]
            /\ UNCHANGED <<messages, isLoading, run>>
       ELSE FailSubmission(s, status, "closed", "cleared")
    /\ UNCHANGED <<serverVars, input, rMessages, rInput, rIsLoading, clientNow>>

\* fetch rejects (network failure): clearTimeout is not reached
FetchReject(s) ==
    /\ Rendered
    /\ h[s].pc = "fetching" /\ h[s].net = "pending"
    /\ FailSubmission(s, "Failed to fetch", "errored", h[s].timer)
    /\ UNCHANGED <<serverVars, input, rMessages, rInput, rIsLoading, clientNow>>

\* mutant: the timer callback aborts, but the rejection is swallowed
TimeoutFiresSilently(s) ==
    /\ Rendered
    /\ h[s].timer = "armed"
    /\ h' = [h EXCEPT ![s].timer = "fired",
                      ![s].net = IF h[s].pc = "fetching" THEN "aborted" ELSE @,
                      ![s].pc = "done"]
    /\ UNCHANGED <<serverVars, messages, isLoading, run, input, rMessages, rInput,
                   rIsLoading, clientNow>>

\* the timer fires: controller.abort(); a fetch still pending rejects with an
\* AbortError, whose message is not 'Request timed out'
TimeoutFires(s) ==
    /\ Rendered
    /\ h[s].timer = "armed"
    /\ IF h[s].pc = "fetching"
       THEN FailSubmission(s, "The user aborted a request.", "aborted", "fired")
       ELSE /\ h' = [h EXCEPT ![s].timer = "fired"]
            /\ UNCHANGED <<messages, isLoading, run>>
    /\ UNCHANGED <<serverVars, input, rMessages, rInput, rIsLoading, clientNow>>

\* ------------------------------------------------------------ the response
RECURSIVE SentUpTo(_)
SentUpTo(s) == IF s = 0 THEN 0 ELSE h[s].sent + SentUpTo(s - 1)

\* the server writes one more frame; the first frame of every response is the
\* seeding event
ServerSend(s, payload) ==
    /\ Rendered
    /\ h[s].net = "open"
    /\ h[s].sent = 0 => payload \in {Json(ev) : ev \in ServerEvents}
    /\ SentUpTo(MaxSubmits) < MaxEvents
    /\ Len(h[s].wire) + Len(Frame(payload)) <= MaxInFlight
    /\ h' = [h EXCEPT ![s].wire = @ \o Frame(payload), ![s].sent = @ + 1]
    /\ UNCHANGED <<serverVars, messages, input, isLoading, rMessages, rInput, rIsLoading,
                   run, clientNow>>

\* the server closes the response, which it does after the seeding event at the
\* earliest
ServerClose(s) ==
    /\ Rendered
    /\ h[s].net = "open"
    /\ h[s].sent >= 1
    /\ h' = [h EXCEPT ![s].net = "closed"]
    /\ UNCHANGED <<serverVars, messages, input, isLoading, rMessages, rInput, rIsLoading,
                   run, clientNow>>

\* the connection is lost while the body is being received
ConnectionDrops(s) ==
    /\ Rendered
    /\ h[s].net = "open"
    /\ h' = [h EXCEPT ![s].net = "errored"]
    /\ UNCHANGED <<serverVars, messages, input, isLoading, rMessages, rInput, rIsLoading,
                   run, clientNow>>

\* mutant: the partial last line is dropped instead of being kept in the buffer
ReadChunkDropsPartial(s, k) ==
    /\ Rendered
    /\ h[s].pc = "reading"
    /\ k \in 1..Len(h[s].wire)
    /\ LET buffer == h[s].buffer \o SubSeq(h[s].wire, 1, k)
           lines == Split(buffer)
           applied == AppliedEvents(Front(lines))
       IN /\ h' = [h EXCEPT ![s].buffer = <<>>,
                            ![s].wire = SubSeq(@, k + 1, Len(@)),
                            ![s].recv = @ \o SubSeq(h[s].wire, 1, k),
                            ![s].split = @ \/ lines[Len(lines)] # <<>>]
          /\ messages' = ProcessLines(messages, Front(lines))
          /\ run' = IF applied = <<>> \/ run.n < 0 THEN run
                    ELSE [run EXCEPT !.n = @ + Len(applied),
                                     !.last = applied[Len(applied)].content]
    /\ UNCHANGED <<serverVars, input, isLoading, rMessages, rInput, rIsLoading, clientNow>>

\* reader.read() resolves with the next k symbols; the loop body runs on them
ReadChunk(s, k) ==
    /\ Rendered
    /\ h[s].pc = "reading"
    /\ k \in 1..Len(h[s].wire)
    /\ LET buffer == h[s].buffer \o SubSeq(h[s].wire, 1, k)
           lines == Split(buffer)
           applied == AppliedEvents(Front(lines))
       IN /\ h' = [h EXCEPT ![s].buffer = lines[Len(lines)],
                            ![s].wire = SubSeq(@, k + 1, Len(@)),
                            ![s].recv = @ \o SubSeq(h[s].wire, 1, k),
                            ![s].split = @ \/ lines[Len(lines)] # <<>>]
          /\ messages' = ProcessLines(messages, Front(lines))
          /\ run' = IF applied = <<>> \/ run.n < 0 THEN run
                    ELSE [run EXCEPT !.n = @ + Len(applied),
                                     !.last = applied[Len(applied)].content]
    /\ UNCHANGED <<serverVars, input, isLoading, rMessages, rInput, rIsLoading, clientNow>>

\* reader.read() resolves with done: break, releaseLock, setIsLoading(false)
ReadDone(s) ==
    /\ Rendered
    /\ h[s].pc = "reading"
    /\ h[s].net = "closed" /\ h[s].wire = <<>>
    /\ h' = [h EXCEPT ![s].pc = "done", ![s].buffer = <<>>, ![s].recv = <<>>,
                      ![s].split = FALSE]
    /\ isLoading' = FALSE
    /\ UNCHANGED <<serverVars, messages, input, rMessages, rInput, rIsLoading, run,
                   clientNow>>

\* reader.read() rejects: not an AbortError, rethrown to the outer catch
ReadError(s) ==
    /\ Rendered
    /\ h[s].pc = "reading"
    /\ h[s].net = "errored"
    /\ FailSubmission(s, "network error", "errored", h[s].timer)
    /\ UNCHANGED <<serverVars, input, rMessages, rInput, rIsLoading, clientNow>>

\* the browser clock advances
ClientTick ==
    /\ Rendered
    /\ clientNow < MaxClientNow
    /\ clientNow' = clientNow + 1
    /\ UNCHANGED <<serverVars, messages, input, isLoading, rMessages, rInput, rIsLoading,
                   h, run>>

ClientNext ==
    \/ Render
    \/ \E value \in InputValues : HandleInputChange(value)
    \/ HandleSubmit
    \/ \E promptText \in InputValues : HandlePrompt(promptText)
    \/ \E s \in Slots, status \in {"ok", "HTTP error! status: 500", "No response body received"} :
          FetchResolve(s, status)
    \/ \E s \in Slots : FetchReject(s)
    \/ \E s \in Slots : TimeoutFires(s)
    \/ \E s \in Slots, payload \in Payloads : ServerSend(s, payload)
    \/ \E s \in Slots : ServerClose(s)
    \/ \E s \in Slots : ConnectionDrops(s)
    \/ \E s \in Slots, k \in 1..MaxInFlight : ReadChunk(s, k)
    \/ \E s \in Slots : ReadDone(s)
    \/ \E s \in Slots : ReadError(s)
    \/ ClientTick

\* no request is being served while the client is studied on its own
ServerIdle ==
    /\ variant = "hf"
    /\ req = [t |-> "undef", items |-> <<>>]
    /\ rawEmbedding = FlatVec(EMBEDDING_DIM)
    /\ embeddingFetch = "ok"
    /\ dbOutcome = "ok"
    /\ stored = <<>>
    /\ firstRun = NotServedBefore
    /\ spc = "idle"
    /\ latestMessage = <<>>
    /\ relevantDocuments = <<>>
    /\ formattedContext = <<>>
    /\ retrievalFailure = "none"
    /\ searchedDim = -1
    /\ embedding = NotEmbedded
    /\ response = "none"
    /\ tpc = "none"
    /\ pendingExn = FALSE
    /\ wstate = "none"
    /\ closeCalls = 0
    /\ chan = <<>>
    /\ accumulatedContent = <<>>
    /\ pulled = <<>>
    /\ llmInvoked = FALSE
    /\ promptContext = <<>>
    /\ failedAt = -1
    /\ writeFailedAt = -1
    /\ serverNow = 0

\* the page is loaded and nothing has been submitted
ClientInit == ServerIdle /\ ClientIdle

SpecClient == ClientInit /\ [][ClientNext]_vars

\* ------------------------------------------------------- the read loop alone
MaxFrames == 3       \* frames of a response body

RECURSIVE FrameSeqs(_)
\* the bodies made of n frames
FrameSeqs(n) ==
    IF n = 0 THEN {<<>>}
    ELSE { body \o Frame(payload) : body \in FrameSeqs(n - 1), payload \in Payloads }

\* response bodies: up to MaxFrames frames, then possibly a line that is never
\* terminated
Bodies ==
    { frames \o rest :
        frames \in UNION { FrameSeqs(n) : n \in 0..MaxFrames },
        rest \in {<<>>} \cup { <<PREFIX, Json(ev)>> : ev \in ServerEvents } }

BodyLen == 4 * MaxFrames + 2

\* one submission is being read: the log ends with its user message, the whole
\* body has arrived and the response is closed
ParserInit ==
    /\ ServerIdle
    /\ clientNow = 0
    /\ messages = <<createMessage("user", Lit(<<"Q">>))>>
    /\ input = <<>>
    /\ isLoading = TRUE
    /\ rMessages = messages
    /\ rInput = input
    /\ rIsLoading = isLoading
    /\ \E body \in Bodies :
          h = [s \in Slots |->
                 IF s = 1
                 THEN [Unused EXCEPT !.pc = "reading", !.timer = "cleared",
                                     !.net = "closed", !.wire = body,
                                     !.sent = Len(body) \div 4, !.body = messages]
                 ELSE Unused]
    /\ run = [n |-> 0, last |-> <<>>, user |-> 1]

\* the read loop takes the body in chunks of any sizes
ParserNext ==
    \/ Render
    \/ \E k \in 1..BodyLen : ReadChunk(1, k)
    \/ ReadDone(1)

SpecParser == ParserInit /\ [][ParserNext]_vars

\* -------------------------------------------- one submission, end to end
\* the text of a message as the route receives it
TextOf(t) == [i \in 1..Len(t) |-> t[i].c]
\* JSON.stringify({ messages: [...] }) on the page, req.json() in the route
RequestOf(body) ==
    [t |-> "arr", items |-> [i \in 1..Len(body) |-> ReqMessage(TextOf(body[i].content))]]

\* what the page receives for a frame the route wrote: `data: ${JSON.stringify(..)}`
WirePayload(frame) ==
    IF frame.type = "done" THEN DONE_TEXT
    ELSE Json([id |-> frame.id, role |-> frame.role, content |-> Lit(frame.content)])

\* the Response returned by POST resolves the page's fetch
RouteAnswers ==
    /\ response # "none"
    /\ FetchResolve(1, IF response = "stream" THEN "ok" ELSE "HTTP error! status: 500")

\* the next frame written to the TransformStream travels to the page
Transmit ==
    /\ Rendered
    /\ h[1].net = "open"
    /\ h[1].sent < Len(chan)
    /\ Len(h[1].wire) + Len(Frame(DONE_TEXT)) <= MaxInFlight
    /\ h' = [h EXCEPT ![1].wire = @ \o Frame(WirePayload(chan[h[1].sent + 1])),
                      ![1].sent = @ + 1]
    /\ UNCHANGED <<serverVars, messages, input, isLoading, rMessages, rInput, rIsLoading,
                   run, clientNow>>

\* writer.close() has been called and every frame has travelled: the body ends
StreamEnds ==
    /\ Rendered
    /\ h[1].net = "open"
    /\ wstate = "closed"
    /\ h[1].sent = Len(chan)
    /\ h' = [h EXCEPT ![1].net = "closed"]
    /\ UNCHANGED <<serverVars, messages, input, isLoading, rMessages, rInput, rIsLoading,
                   run, clientNow>>

\* the page has submitted "Q" from an empty log and the request has arrived at
\* the route; embedding and store answer normally, and the connection holds
\* until the route closes the stream
EndToEndInit ==
    /\ clientNow = 0
    /\ messages = <<createMessage("user", Lit(<<"Q">>))>>
    /\ input = <<>>
    /\ isLoading = TRUE
    /\ rMessages = messages
    /\ rInput = input
    /\ rIsLoading = isLoading
    /\ h = [s \in Slots |->
              IF s = 1
              THEN [Unused EXCEPT !.pc = "fetching", !.timer = "armed",
                                  !.net = "pending", !.body = messages]
              ELSE Unused]
    /\ run = [n |-> 0, last |-> <<>>, user |-> 1]
    /\ variant \in Variants
    /\ req = RequestOf(h[1].body)
    /\ rawEmbedding = FlatVec(EMBEDDING_DIM)
    /\ embeddingFetch = "ok"
    /\ dbOutcome = "ok"
    /\ stored = <<>>
    /\ firstRun = NotServedBefore
    /\ serverNow = 0
    /\ AtEntry

EndToEndNext ==
    \/ Validate
    \/ Retrieve
    \/ OpenStream
    \/ TaskInit
    \/ InvokeLLM
    \/ LoopNext
    \/ LoopThrows
    \/ WriteDone
    \/ Catch
    \/ Finally
    \/ ServerTick
    \/ RouteAnswers
    \/ Transmit
    \/ StreamEnds
    \/ Render
    \/ \E k \in 1..MaxInFlight : ReadChunk(1, k)
    \/ ReadDone(1)

SpecEndToEnd == EndToEndInit /\ [][EndToEndNext]_vars

\* the client under the scheduling the code can rely on: a pending render is
\* committed, an armed timer fires, a reader that has something to deliver (data,
\* end of stream, an error) delivers it; the network and the server owe nothing
ClientFairness ==
    /\ WF_vars(Render)
    /\ \A s \in Slots :
          /\ WF_vars(TimeoutFires(s))
          /\ WF_vars(\E k \in 1..MaxInFlight : ReadChunk(s, k))
          /\ WF_vars(ReadDone(s))
          /\ WF_vars(ReadError(s))

FairSpecClient == SpecClient /\ ClientFairness

\* ----------------------------------------------------------- client claims
\* a handleSubmit invocation that passed the guard and has not finished
InFlight(s) == h[s].pc \in {"fetching", "reading"}

\* C6: from a log ending in the just-submitted user message, once N >= 1
\* assistant events have been applied the log holds exactly one message after
\* that user message, an assistant message that is last and carries the content
\* of the last applied event; while events are applied there is never more than
\* one message after the user message.
C6_OneAssistantInProgress ==
    /\ run.n >= 0 =>
          /\ run.user \in 1..Len(messages)
          /\ messages[run.user].role = "user"
          /\ Len(messages) <= run.user + 1
    /\ run.n >= 1 =>
          /\ Len(messages) = run.user + 1
          /\ Last(messages).role = "assistant"
          /\ Last(messages).content = run.last

\* C6 witness: two events were applied after the user message, the second
\* replacing the empty content of the first
C6_Witness ==
    /\ run.n = 2 /\ run.last = Lit(<<"Max">>)
    /\ Len(messages) = 2 /\ messages[2].content = Lit(<<"Max">>)

\* C7: while a submission is in flight no handleSubmit invocation starts another
\* one (no user message appended, no request opened), whatever the interleaving
\* of invocations and renders.
C7_NoOverlappingSubmission ==
    [][(\E s \in Slots : InFlight(s)) =>
          /\ \A t \in Slots : h[t].pc = "unused" => h'[t].pc = "unused"
          /\ Len(SelectSeq(messages', LAMBDA m : m.role = "user"))
                = Len(SelectSeq(messages, LAMBDA m : m.role = "user"))]_vars

\* C8: when the timer fires while fetch is still pending, the request is
\* aborted, one apology assistant message is appended to the log and the loading
\* flag is cleared; no invocation ever appends more than one apology.
C8_TimeoutAbortsAndApologises ==
    /\ [](\A s \in Slots : h[s].apologies <= 1)
    /\ [][\A s \in Slots :
            (h[s].pc = "fetching" /\ h[s].timer = "armed" /\ h'[s].timer = "fired") =>
                /\ h'[s].net = "aborted"
                /\ h'[s].pc = "done"
                /\ h'[s].apologies = 1
                /\ \E text \in {APOLOGY_TIMEOUT, APOLOGY_CLIENT} :
                      messages' = Append(messages, createMessage("assistant", text))
                /\ isLoading' = FALSE]_vars

\* C8 witness: a request was aborted by its timer and the apology is the last
\* message, with the loading flag down
C8_Witness ==
    \E s \in Slots :
        /\ h[s].timer = "fired" /\ h[s].net = "aborted" /\ h[s].apologies = 1
        /\ ~isLoading
        /\ messages # <<>> /\ Last(messages).role = "assistant"
        /\ Last(messages).content = APOLOGY_CLIENT

RECURSIVE LogAfter(_, _)
\* the log after these events have been applied to it, one by one
LogAfter(log, events) ==
    IF events = <<>> THEN log
    ELSE LogAfter(IF log # <<>> /\ Last(log).role = "assistant"
                  THEN [log EXCEPT ![Len(log)].content = Head(events).content]
                  ELSE Append(log, Head(events)),
                  Tail(events))

\* the payloads of the complete `data: ` lines among these symbols, in order
DataLines(symbols) ==
    LET complete == Front(Split(symbols))
        data == SelectSeq(complete, LAMBDA l : l # <<>> /\ l[1] = PREFIX)
    IN [i \in 1..Len(data) |-> Tail(data[i])]

\* the events among these payloads: [DONE] and what does not parse are left out
EventsAmong(payloads) ==
    LET parsed == SelectSeq(payloads, LAMBDA d : Len(d) = 1 /\ d[1].k = "json")
    IN [i \in 1..Len(parsed) |-> parsed[i][1].v]

\* C15: however the body is cut into chunks, the log is what it was at the submit
\* with the events of the complete `data: ` lines received so far applied once
\* each, in order: the same as if those symbols had come as one chunk; [DONE]
\* and a line that does not parse change nothing and stop nothing.
C15_ChunkingInvariant ==
    h[1].pc = "reading" =>
        messages = LogAfter(h[1].body, EventsAmong(DataLines(h[1].recv)))

\* C15 witness: a body of an event, a line that does not parse and a second
\* event has been read to its end, at least one read having stopped in the
\* middle of a line, and the log carries the content of the second event
C15_Witness ==
    /\ h[1].pc = "reading" /\ h[1].wire = <<>> /\ h[1].split
    /\ \E e1, e2 \in ServerEvents :
          /\ e1.content = <<>> /\ e2.content = Lit(<<"Max">>)
          /\ h[1].recv = Frame(Json(e1)) \o Frame(GARBAGE) \o Frame(Json(e2))
    /\ Len(messages) = 2 /\ Last(messages).content = Lit(<<"Max">>)

\* C17: every step leaves the log unchanged, or appends one message at its end,
\* or keeps its length and replaces only the content of its last message, which
\* has role assistant; nothing is removed or reordered, and no user message and
\* no assistant message but the last is modified.
C17_LogTransitions ==
    [][\/ messages' = messages
       \/ /\ Len(messages') = Len(messages) + 1
          /\ SubSeq(messages', 1, Len(messages)) = messages
       \/ /\ Len(messages') = Len(messages)
          /\ messages # <<>>
          /\ Last(messages).role = "assistant"
          /\ messages' = [messages EXCEPT ![Len(messages)].content = Last(messages').content]]_vars

\* C17 witness: an apology and a second user message were appended, then a first
\* event was appended and a second event replaced its content
C17_Witness ==
    /\ Len(messages) = 4
    /\ messages[2].role = "assistant" /\ messages[2].content = APOLOGY_CLIENT
    /\ messages[3].role = "user"
    /\ run.user = 3 /\ run.n = 2
    /\ messages[4].role = "assistant" /\ messages[4].content = run.last

\* C19: in every state of the log any two distinct messages (user messages,
\* messages appended from a server event, apologies) have different ids.
C19_UniqueIds ==
    \A i, j \in 1..Len(messages) : i # j => messages[i].id # messages[j].id

\* C22: the request opened by an accepted submit carries the log as it stands at
\* the moment of submission followed by the new user message.
C22_RequestCarriesLog ==
    [][\A s \in Slots :
          (h[s].pc = "unused" /\ h'[s].pc = "fetching") =>
              /\ Len(messages') = Len(messages) + 1
              /\ h'[s].body = Append(messages, messages'[Len(messages')])]_vars

\* C24: when generation fails after at least one increment has been streamed,
\* then once the stream has closed and the page has read it to its end the log
\* holds exactly one message after the submitted user message, an assistant
\* message whose content is the server's apology, and the loading flag is cleared.
C24_PartialAnswerReplacedByApology ==
    (h[1].pc = "done" /\ h[1].net = "closed" /\ failedAt >= 2) =>
        /\ Len(messages) = 2
        /\ messages[1].role = "user"
        /\ messages[2].role = "assistant"
        /\ messages[2].content = Lit(CatchApology)
        /\ ~isLoading

\* C24 witness: two increments were streamed before the failure; the page has
\* read the closed stream and shows the apology in place of the partial answer
C24_Witness ==
    /\ h[1].pc = "done" /\ h[1].net = "closed" /\ failedAt = 3 /\ h[1].sent = 4
    /\ chan[3].content # <<>>
    /\ Len(messages) = 2 /\ messages[2].content = Lit(CatchApology)
    /\ ~isLoading

\* C25: handlePrompt invoked with non-blank text (of admissible length) while no
\* submission is in flight appends a user message whose content is the trimmed
\* text and opens one request that carries it as its last message.
C25_PromptSubmitsItsText ==
    [][\A promptText \in InputValues :
          ( /\ TrimText(promptText) # <<>>
            /\ TextLen(TrimText(promptText)) <= MAX_INPUT_LENGTH
            /\ ~isLoading /\ ~rIsLoading
            /\ \A s \in Slots : ~InFlight(s)
            /\ HandlePrompt(promptText) )
          => /\ Len(messages') = Len(messages) + 1
             /\ messages'[Len(messages')].role = "user"
             /\ messages'[Len(messages')].content = TrimText(promptText)
             /\ \E s \in Slots :
                   /\ h[s].pc = "unused" /\ h'[s].pc = "fetching"
                   /\ h'[s].body # <<>>
                   /\ h'[s].body[Len(h'[s].body)] = messages'[Len(messages')]]_vars

\* the log ends with an assistant message and the loading flag is cleared
Settled == ~isLoading /\ messages # <<>> /\ Last(messages).role = "assistant"

\* C9: every accepted submit is eventually followed by a state where the log
\* ends with an assistant message and the loading flag is cleared, whatever the
\* network and the server do.
C9_NoSilentHang == \A s \in Slots : InFlight(s) ~> Settled

\* C10 as stated: an invocation whose input is blank or longer than 1000
\* characters is stopped by the guard, and one whose input has exactly 1000
\* characters passes it.
C10_RawLengthGuard ==
    HasFreeSlot =>
        /\ (TrimText(rInput) = <<>> \/ TextLen(rInput) > MAX_INPUT_LENGTH)
              => ~ENABLED HandleSubmit
        /\ (TextLen(rInput) = MAX_INPUT_LENGTH /\ TrimText(rInput) # <<>> /\ ~rIsLoading)
              => ENABLED HandleSubmit

\* C10, amended: the guard measures the trimmed input. An invocation passes it
\* exactly when the render is not loading and the trimmed input is non-empty and
\* at most 1000 characters long (1000 passes, 1001 does not); every user message
\* of the log is such a trimmed input.
C10_TrimmedLengthGuard ==
    /\ HasFreeSlot =>
          (ENABLED HandleSubmit <=>
              /\ ~rIsLoading
              /\ TrimText(rInput) # <<>>
              /\ TextLen(TrimText(rInput)) <= MAX_INPUT_LENGTH)
    /\ \A i \in 1..Len(messages) :
          messages[i].role = "user" =>
              /\ messages[i].content # <<>>
              /\ TrimText(messages[i].content) = messages[i].content
              /\ TextLen(messages[i].content) <= MAX_INPUT_LENGTH

\* C10 witness: an input of 1001 characters, the last one a space, has just been
\* submitted: its 1000 trimmed characters are in the log and a request is open
C10_Witness ==
    /\ rInput = <<Run("a", MAX_INPUT_LENGTH), Run(" ", 1)>>
    /\ messages # <<>> /\ Last(messages).role = "user"
    /\ Last(messages).content = <<Run("a", MAX_INPUT_LENGTH)>>
    /\ \E s \in Slots : h[s].pc = "fetching" /\ Last(h[s].body) = Last(messages)

====
